---- MODULE Spec2Model ----
(***************************************************************************)
(* Model of src/main.py: class Uploader (Yandex.Disk folder creation and   *)
(* upload-by-url) and class VkPhotoCopier (VK album search, photo info     *)
(* with selection of the largest size variant, file naming and upload, and *)
(* the backup run vk_backup_photo that writes the result manifest).        *)
(*                                                                         *)
(* Python str values are TLA+ strings; str(int), strftime, f-strings and   *)
(* the substring test `a in b` are computed character by character.        *)
(***************************************************************************)
EXTENDS Integers, Sequences, FiniteSets, TLC

VARIABLES
    pc,            \* position of the flow of control
    tz,            \* local time zone of the machine running the script
    args,          \* arguments of vk_backup_photo, as passed by the caller
    other_albums,  \* the local other_albums (reassigned at line 233)
    date_time,     \* formatted start time of the run (line 235)
    path,          \* run root folder name (line 236)
    data,          \* resp.json()['response']['items'] of the last photos.get
    photos,        \* info_photos being uploaded by vk_uploader
    idx,           \* position of vk_uploader's for loop in photos (1-based)
    names_photo,   \* vk_uploader's names_photo
    up_path,       \* vk_uploader's path argument
    up_result,     \* vk_uploader's result list
    albums,        \* list returned by vk_album_search
    aidx,          \* 0 while the profile is copied, k for the k-th album
    result,        \* vk_backup_photo's result dict (the manifest)
    file,          \* the manifest files on disk: a set of [name, content]
    log            \* the HTTP requests and file writes issued so far, in order

vars == <<pc, tz, args, other_albums, date_time, path, data, photos, idx, names_photo,
          up_path, up_result, albums, aidx, result, file, log>>

-----------------------------------------------------------------------------
(* Bounds of the model *)

\* longest list of photos one photos.get response carries
MaxPhotos == 3
\* longest list of albums one photos.getAlbums response carries
MaxAlbums == 2
\* longest list of size variants of one photo
MaxVariants == 3

-----------------------------------------------------------------------------
(* Python string conversions *)

\* one decimal digit as a character
Digit(d) == SubSeq("0123456789", d + 1, d + 1)

\* str(n) for an int n >= 0: its decimal digits, most significant first
RECURSIVE Str(_)
Str(n) == IF n < 10 THEN Digit(n) ELSE Str(n \div 10) \o Digit(n % 10)

\* a field of strftime: n zero-padded to two (%m %d %H %M %S) or four (%Y) digits
Pad2(n) == IF n < 10 THEN "0" \o Str(n) ELSE Str(n)
Pad4(n) == IF n < 10 THEN "000" \o Str(n)
           ELSE IF n < 100 THEN "00" \o Str(n)
           ELSE IF n < 1000 THEN "0" \o Str(n) ELSE Str(n)

\* `sub in s` for two Python strings: sub occurs in s as a substring
Contains(sub, s) ==
    \E i \in 1..(Len(s) - Len(sub) + 1) : SubSeq(s, i, i + Len(sub) - 1) = sub

\* the zones the script is run in: one without and one with daylight saving
Zones == {"UTC", "Europe/Berlin"}

\* seconds east of UTC in force at Unix time ts (Europe/Berlin left summer
\* time on 2023-10-29 01:00:00 UTC; valid for the dates of the model)
UtcOffset(zone, ts) ==
    IF zone = "Europe/Berlin"
    THEN (IF ts < 1698541200 THEN 7200 ELSE 3600)
    ELSE 0

\* datetime.datetime.fromtimestamp(ts).strftime('%Y-%m-%d %H-%M-%S') in zone:
\* the civil date of the local day number and the time of day
strftime(ts, zone) ==
    LET local == ts + UtcOffset(zone, ts)
        days  == local \div 86400
        secs  == local % 86400
        z     == days + 719468
        era   == z \div 146097
        doe   == z - era * 146097
        yoe   == (doe - doe \div 1460 + doe \div 36524 - doe \div 146096) \div 365
        doy   == doe - (365 * yoe + yoe \div 4 - yoe \div 100)
        mp    == (5 * doy + 2) \div 153
        day   == doy - (153 * mp + 2) \div 5 + 1
        month == IF mp < 10 THEN mp + 3 ELSE mp - 9
        year  == yoe + era * 400 + (IF month <= 2 THEN 1 ELSE 0)
    IN  Pad4(year) \o "-" \o Pad2(month) \o "-" \o Pad2(day) \o " "
        \o Pad2(secs \div 3600) \o "-" \o Pad2((secs % 3600) \div 60)
        \o "-" \o Pad2(secs % 60)

-----------------------------------------------------------------------------
(* VkPhotoCopier.vk_get_info_photo: the largest size variant of each photo *)

\* the size codes, largest first (line 140)
size_types == <<"w", "z", "y", "x", "r", "q", "p", "o", "m", "s">>

\* list(filter(lambda size: size_type in size['type'], photo['sizes']))
FilterSizes(size_type, sizes) ==
    SelectSeq(sizes, LAMBDA size : Contains(size_type, size.type))

\* the for loop of lines 141-144 from position k on: the filter result of the
\* first size type that matches a variant, the empty list when none does
RECURSIVE MaxSizeFrom(_, _)
MaxSizeFrom(k, sizes) ==
    IF k > Len(size_types) THEN <<>>
    ELSE LET found == FilterSizes(size_types[k], sizes)
         IN  IF found # <<>> THEN found ELSE MaxSizeFrom(k + 1, sizes)

max_size(sizes) == MaxSizeFrom(1, sizes)

\* max_size[0] of line 145 raises IndexError for some photo of the response
RaisesIndexError(items) ==
    \E i \in 1..Len(items) : max_size(items[i].sizes) = <<>>

\* the info_photo dict of one photo (lines 138-146)
info_photo(photo) ==
    LET best == max_size(photo.sizes)[1]
    IN  [id |-> photo.id, album_id |-> photo.album_id, date |-> photo.date,
         likes |-> photo.likes.count, url |-> best.url, sizes |-> best.type,
         height |-> best.height, width |-> best.width]

\* the list vk_get_info_photo returns for the items of a response
info_photos(items) == [i \in 1..Len(items) |-> info_photo(items[i])]

\* a variant of PhotoCount that maps 0 to the empty count, as AlbumCount does
PhotoCountNoLimit(number_photos) ==
    IF number_photos = 0 THEN "" ELSE Str(number_photos)

\* the count parameter of photos.get as requests puts it in the query string
\* (line 132: the int number_photos, unchanged)
PhotoCount(number_photos) == Str(number_photos)

-----------------------------------------------------------------------------
(* VkPhotoCopier.vk_album_search *)

\* the count parameter of photos.getAlbums (lines 90-93)
AlbumCount(number_albums) ==
    IF number_albums = 0 THEN "" ELSE Str(number_albums)

\* the albums list built from the response (lines 98-102)
ParseAlbums(response) ==
    IF response.count > 0
    THEN [i \in 1..Len(response.items) |->
            [album_id |-> response.items[i].id, title |-> response.items[i].title]]
    ELSE <<>>

-----------------------------------------------------------------------------
(* VkPhotoCopier.vk_uploader: one iteration of the loop *)

\* x in a Python list
InList(x, list) == \E i \in 1..Len(list) : list[i] = x

\* a variant of NameOf that looks the name up with its extension, and so
\* never finds it
NameOfNoSuffix(photo, names, zone) ==
    LET file_name == Str(photo.likes)
    IN  IF InList(file_name \o ".jpg", names)
        THEN file_name \o " " \o strftime(photo.date, zone)
        ELSE file_name

\* the name without extension of lines 183-186, tracked in names_photo
NameOf(photo, names, zone) ==
    LET file_name == Str(photo.likes)
    IN  IF InList(file_name, names)
        THEN file_name \o " " \o strftime(photo.date, zone)
        ELSE file_name

\* a variant of UploadResult that records the name before '.jpg' is appended
UploadResultBare(photo, names, zone) ==
    [file_name |-> NameOf(photo, names, zone), size |-> photo.sizes]

\* the entry appended to vk_uploader's result (lines 188, 192)
UploadResult(photo, names, zone) ==
    [file_name |-> NameOf(photo, names, zone) \o ".jpg", size |-> photo.sizes]

-----------------------------------------------------------------------------
(* Requests leaving the program, as recorded in log *)

\* Uploader.ya_create_folder: PUT .../resources?path=p
ya_create_folder(p) == [op |-> "ya_create_folder", path |-> p]

\* Uploader.ya_upload: POST .../resources/upload?path=p&url=u
ya_upload(p, u) == [op |-> "ya_upload", path |-> p, url |-> u]

\* GET photos.get with album_id and count
photos_get(album_id, count) ==
    [op |-> "photos.get", album_id |-> album_id, count |-> count]

\* GET photos.getAlbums with count
photos_getAlbums(count) == [op |-> "photos.getAlbums", count |-> count]

\* json.dump of the manifest into file_path
json_dump(file_path) == [op |-> "json.dump", path |-> file_path]

-----------------------------------------------------------------------------
(* The data the two remote services and the caller can supply *)

\* sequences of at most n pairwise different elements of S
DistinctSeqs(S, n) ==
    { s \in UNION { [1..k -> S] : k \in 0..n } :
        \A i, j \in DOMAIN s : i # j => s[i] # s[j] }

\* upload times of photos: the first two are an hour apart and read the same
\* on a Europe/Berlin wall clock
Dates == {1698539400, 1698543000, 1704067200}

\* like counts of photos
LikeCounts == {5, 10}

\* readings of datetime.datetime.now() as Unix time
Clock == {1704067200}

\* one element of photo['sizes']
Variant(type, n) ==
    [type |-> type, url |-> "https://vk/" \o type \o ".jpg",
     height |-> 10 * n, width |-> 15 * n]

\* size variants of a photo: recognized codes and codes outside size_types
VariantPool ==
    {Variant("w", 5), Variant("x", 4), Variant("s", 1),
     Variant("base", 6), Variant("a", 2)}

\* one item of a photos.get response
Photo(id, likes, date, sizes) ==
    [id |-> id, album_id |-> "", date |-> date, likes |-> [count |-> likes],
     sizes |-> sizes]

\* photos of the account: two with the same likes and date, one without a
\* variant of a known size
PhotoPool ==
    {Photo(1, 10, 1698539400, <<Variant("m", 2), Variant("x", 4)>>),
     Photo(2, 10, 1698539400, <<Variant("s", 1)>>),
     Photo(3, 5, 1704067200, <<Variant("a", 2)>>)}

\* the item lists photos.get may answer with for album_id
PhotoResponses(album_id) ==
    { [i \in DOMAIN s |-> [s[i] EXCEPT !.album_id = album_id]] :
        s \in DistinctSeqs(PhotoPool, MaxPhotos) }

\* public albums of the account; VK allows two albums with one title
AlbumPool ==
    {[id |-> "101", title |-> "Trip"], [id |-> "102", title |-> "Trip"],
     [id |-> "103", title |-> "Sea"]}

\* the responses photos.getAlbums may answer with when asked for
\* number_albums albums (0: all of them): count is the number of albums of
\* the account, items the ones returned
AlbumResponses(number_albums) ==
    { r \in [count : 0..(MaxAlbums + 1), items : DistinctSeqs(AlbumPool, MaxAlbums)] :
        /\ r.count \in {Len(r.items), Len(r.items) + 1}
        /\ r.items = <<>> => r.count = 0
        /\ number_albums # 0 => Len(r.items) <= number_albums }

\* number_photos of vk_backup_photo: its default
DefaultNumberPhotos == 5

\* the arguments a caller passes to vk_backup_photo
Arguments ==
    [other_albums : BOOLEAN, number_albums : 0..MaxAlbums,
     number_photos : {0, DefaultNumberPhotos}]

\* the photos argument of vk_uploader: info_photo dicts with any likes and dates
UploaderInputs ==
    UNION { { [i \in 1..k |->
                [id |-> i, album_id |-> "profile", date |-> f[i][2],
                 likes |-> f[i][1], url |-> "https://vk/" \o Str(i) \o ".jpg",
                 sizes |-> "x", height |-> 40, width |-> 60]] :
              f \in [1..k -> LikeCounts \X Dates] } : k \in 0..MaxPhotos }

\* one-photo responses of photos.get with any list of different size variants
SelectInputs ==
    { <<Photo(1, 10, 1704067200, sizes)>> :
        sizes \in DistinctSeqs(VariantPool, MaxVariants) }

-----------------------------------------------------------------------------
(* VkPhotoCopier.vk_backup_photo, step by step *)

\* a Python dict: a function from its keys
EmptyDict == [k \in {} |-> <<>>]

\* d[k] = v
DictSet(d, k, v) == [x \in DOMAIN d \cup {k} |-> IF x = k THEN v ELSE d[x]]

\* a variant of EffectiveOtherAlbums without lines 232-233
OtherAlbumsFlagOnly(other, number_albums) == other

\* lines 232-233: a nonzero number_albums turns other_albums on
EffectiveOtherAlbums(other, number_albums) == other \/ number_albums # 0

\* a variant of AfterAlbumSearch that enters the album loop body first and
\* tests afterwards
AfterAlbumSearchAlways(found) == "album"

\* line 243: the album loop is entered only with a non-empty list
AfterAlbumSearch(found) == IF found # <<>> THEN "album" ELSE "write"

\* f"{path}/{file_name}" of line 189, file_name being the name plus '.jpg'
PathFile(dir, photo, names, zone) ==
    dir \o "/" \o NameOf(photo, names, zone) \o ".jpg"

\* a variant of Raise in which the dump of lines 249-255 runs as a finally
RaiseAfterDump ==
    /\ pc' = "fault"
    /\ file' = file \cup {[name |-> "result/result vk_backup_photo " \o date_time
                                      \o ".json",
                           content |-> result]}
    /\ UNCHANGED <<photos, idx, names_photo, up_path, up_result, result>>

\* a variant of AlbumRequests that queries the photos before creating the folder
AlbumRequestsQueryFirst(path_album, album_id, count) ==
    <<photos_get(album_id, count), ya_create_folder(path_album)>>

\* lines 246-247: the requests that open an album, in order
AlbumRequests(path_album, album_id, count) ==
    <<ya_create_folder(path_album), photos_get(album_id, count)>>

\* an exception nothing catches ends the run where it is raised
Raise ==
    /\ pc' = "fault"
    /\ UNCHANGED <<photos, idx, names_photo, up_path, up_result, result, file>>

\* the call vk_uploader(path=dir, photos=list, ...): its locals at loop entry
EnterUploader(dir, list) ==
    /\ pc' = "upload"
    /\ photos' = list
    /\ idx' = 1
    /\ names_photo' = <<>>
    /\ up_path' = dir
    /\ up_result' = <<>>
    /\ UNCHANGED <<result, file>>

\* lines 232-237: the flag, the empty result, the root folder
Start ==
    /\ pc = "start"
    /\ other_albums' = EffectiveOtherAlbums(args.other_albums, args.number_albums)
    /\ result' = EmptyDict
    /\ \E now \in Clock :
         /\ date_time' = strftime(now, tz)
         /\ path' = "VK backup photo " \o date_time'
    /\ log' = Append(log, ya_create_folder(path'))
    /\ pc' = "get_profile"
    /\ UNCHANGED <<tz, args, data, photos, idx, names_photo, up_path, up_result,
                   albums, aidx, file>>

\* line 238 and the call of line 239: the profile photos are fetched, the
\* largest variant of each is chosen, vk_uploader is entered
GetProfilePhotos ==
    /\ pc = "get_profile"
    /\ log' = Append(log, photos_get("profile", PhotoCount(args.number_photos)))
    /\ \E items \in PhotoResponses("profile") :
         /\ data' = items
         /\ IF RaisesIndexError(items)
            THEN Raise
            ELSE EnterUploader(path, info_photos(items))
    /\ UNCHANGED <<tz, args, other_albums, date_time, path, albums, aidx>>

\* lines 182-192: one iteration of vk_uploader's loop
vk_uploader ==
    /\ pc = "upload"
    /\ idx <= Len(photos)
    /\ LET photo == photos[idx]
       IN  /\ names_photo' = Append(names_photo, NameOf(photo, names_photo, tz))
           /\ log' = Append(log, ya_upload(PathFile(up_path, photo, names_photo, tz),
                                           photo.url))
           /\ up_result' = Append(up_result, UploadResult(photo, names_photo, tz))
    /\ idx' = idx + 1
    /\ UNCHANGED <<pc, tz, args, other_albums, date_time, path, data, photos,
                   up_path, albums, aidx, result, file>>

\* lines 239 and 241: vk_uploader returns, the profile entry is assigned
AssignProfile ==
    /\ pc = "upload"
    /\ idx > Len(photos)
    /\ aidx = 0
    /\ result' = DictSet(result, "profile", up_result)
    /\ pc' = IF other_albums = TRUE THEN "album_search" ELSE "write"
    /\ UNCHANGED <<tz, args, other_albums, date_time, path, data, photos, idx,
                   names_photo, up_path, up_result, albums, aidx, file, log>>

\* lines 242-243 with vk_album_search (lines 90-104)
AlbumSearch ==
    /\ pc = "album_search"
    /\ log' = Append(log, photos_getAlbums(AlbumCount(args.number_albums)))
    /\ \E response \in AlbumResponses(args.number_albums) :
         /\ albums' = ParseAlbums(response)
         /\ pc' = AfterAlbumSearch(albums')
    /\ aidx' = 1
    /\ UNCHANGED <<tz, args, other_albums, date_time, path, data, photos, idx,
                   names_photo, up_path, up_result, result, file>>

\* lines 245-247 and the call of line 248, for the album at position aidx
AlbumStart ==
    /\ pc = "album"
    /\ aidx \in 1..Len(albums)
    /\ LET album == albums[aidx]
           path_album == path \o "/" \o album.title
       IN  /\ log' = log \o AlbumRequests(path_album, album.album_id,
                                          PhotoCount(args.number_photos))
           /\ \E items \in PhotoResponses(album.album_id) :
                /\ data' = items
                /\ IF RaisesIndexError(items)
                   THEN Raise
                   ELSE EnterUploader(path_album, info_photos(items))
    /\ UNCHANGED <<tz, args, other_albums, date_time, path, albums, aidx>>

\* line 248: vk_uploader returns, the album's entry is assigned, the loop of
\* line 244 moves on
AssignAlbum ==
    /\ pc = "upload"
    /\ idx > Len(photos)
    /\ aidx \in 1..Len(albums)
    /\ result' = DictSet(result, albums[aidx].title, up_result)
    /\ IF aidx < Len(albums)
       THEN pc' = "album" /\ aidx' = aidx + 1
       ELSE pc' = "write" /\ aidx' = aidx
    /\ UNCHANGED <<tz, args, other_albums, date_time, path, data, photos, idx,
                   names_photo, up_path, up_result, albums, file, log>>

\* lines 249-255: the manifest is dumped into result/<run name>.json
WriteManifest ==
    /\ pc = "write"
    /\ LET file_path == "result/result vk_backup_photo " \o date_time \o ".json"
       IN  /\ file' = file \cup {[name |-> file_path, content |-> result]}
           /\ log' = Append(log, json_dump(file_path))
    /\ pc' = "done"
    /\ UNCHANGED <<tz, args, other_albums, date_time, path, data, photos, idx,
                   names_photo, up_path, up_result, albums, aidx, result>>

\* the state before vk_backup_photo runs, for given arguments and time zone
Idle(a, zone) ==
    /\ pc = "start"
    /\ tz = zone
    /\ args = a
    /\ other_albums = a.other_albums
    /\ date_time = ""
    /\ path = ""
    /\ data = <<>>
    /\ photos = <<>>
    /\ idx = 1
    /\ names_photo = <<>>
    /\ up_path = ""
    /\ up_result = <<>>
    /\ albums = <<>>
    /\ aidx = 0
    /\ result = EmptyDict
    /\ file = {}
    /\ log = <<>>

\* a run of vk_backup_photo
Init == \E a \in Arguments, zone \in Zones : Idle(a, zone)

Next ==
    \/ Start
    \/ GetProfilePhotos
    \/ vk_uploader
    \/ AssignProfile
    \/ AlbumSearch
    \/ AlbumStart
    \/ AssignAlbum
    \/ WriteManifest

Spec == Init /\ [][Next]_vars

-----------------------------------------------------------------------------
(* vk_get_info_photo and vk_uploader on their own, over all their inputs *)

\* vk_backup_photo's default arguments (line 196)
DefaultArguments ==
    [other_albums |-> FALSE, number_albums |-> 0,
     number_photos |-> DefaultNumberPhotos]

\* lines 130-149: one call of vk_get_info_photo on a one-photo response
vk_get_info_photo ==
    /\ pc = "get_info"
    /\ log' = Append(log, photos_get("profile", PhotoCount(args.number_photos)))
    /\ \E items \in SelectInputs :
         /\ data' = items
         /\ IF RaisesIndexError(items)
            THEN Raise
            ELSE /\ photos' = info_photos(items)
                 /\ pc' = "info"
                 /\ UNCHANGED <<idx, names_photo, up_path, up_result, result, file>>
    /\ UNCHANGED <<tz, args, other_albums, date_time, path, albums, aidx>>

InitSelect ==
    \E zone \in Zones :
        /\ pc = "get_info"
        /\ tz = zone
        /\ args = DefaultArguments
        /\ other_albums = FALSE
        /\ date_time = ""
        /\ path = ""
        /\ data = <<>>
        /\ photos = <<>>
        /\ idx = 1
        /\ names_photo = <<>>
        /\ up_path = ""
        /\ up_result = <<>>
        /\ albums = <<>>
        /\ aidx = 0
        /\ result = EmptyDict
        /\ file = {}
        /\ log = <<>>

NextSelect == vk_get_info_photo

SpecSelect == InitSelect /\ [][NextSelect]_vars

\* vk_uploader entered with any list of photos, in any zone
InitUploader ==
    \E list \in UploaderInputs, zone \in Zones, now \in Clock :
        /\ pc = "upload"
        /\ tz = zone
        /\ args = DefaultArguments
        /\ other_albums = FALSE
        /\ date_time = strftime(now, zone)
        /\ path = "VK backup photo " \o date_time
        /\ data = <<>>
        /\ photos = list
        /\ idx = 1
        /\ names_photo = <<>>
        /\ up_path = path
        /\ up_result = <<>>
        /\ albums = <<>>
        /\ aidx = 0
        /\ result = EmptyDict
        /\ file = {}
        /\ log = <<>>

NextUploader == vk_uploader

SpecUploader == InitUploader /\ [][NextUploader]_vars

-----------------------------------------------------------------------------
(* Properties of vk_uploader's naming, checked under SpecUploader *)

\* some photo before position i of list has the like count of the i-th
EarlierSameLikes(list, i) == \E j \in 1..(i - 1) : list[j].likes = list[i].likes

\* C1: the file names vk_uploader assigns within one collection are pairwise
\* distinct, whatever the like counts and upload timestamps of the photos
C1_FileNamesDistinct ==
    \A i, j \in 1..Len(up_result) :
        i # j => up_result[i].file_name # up_result[j].file_name

\* C2: in sequence order a photo is named '<likes>.jpg' exactly when no
\* earlier photo of the collection has its like count, and
\* '<likes> <formatted upload time>.jpg' otherwise; so photos with pairwise
\* distinct like counts get pairwise distinct bare names
C2_NamingRule ==
    /\ \A i \in 1..Len(up_result) :
         up_result[i].file_name =
            IF EarlierSameLikes(photos, i)
            THEN Str(photos[i].likes) \o " " \o strftime(photos[i].date, tz) \o ".jpg"
            ELSE Str(photos[i].likes) \o ".jpg"
    /\ (\A i, j \in 1..Len(up_result) : i # j => photos[i].likes # photos[j].likes)
         => \A i, j \in 1..Len(up_result) :
              /\ up_result[i].file_name = Str(photos[i].likes) \o ".jpg"
              /\ i # j => up_result[i].file_name # up_result[j].file_name

\* C2's case: two photos with one like count and different upload times have
\* both been named, and a third photo has a like count of its own
C2_Witness ==
    /\ idx > Len(photos)
    /\ Len(photos) = 3
    /\ photos[1].likes = photos[2].likes
    /\ photos[1].date # photos[2].date
    /\ photos[3].likes # photos[1].likes
    /\ up_result[1].file_name = "10.jpg"
    /\ up_result[2].file_name # "10.jpg"

-----------------------------------------------------------------------------
(* Properties of the size selection, checked under SpecSelect *)

\* the positions in size_types of the codes that some variant of sizes carries
CodesPresent(sizes) ==
    { k \in 1..Len(size_types) : \E i \in 1..Len(sizes) : sizes[i].type = size_types[k] }

\* the least element of a non-empty set of numbers
Least(S) == CHOOSE k \in S : \A m \in S : k <= m

\* the rearrangements of a list
Permutations_(list) ==
    { [i \in 1..Len(list) |-> list[f[i]]] :
        f \in { g \in [1..Len(list) -> 1..Len(list)] :
                  \A a, b \in 1..Len(list) : a # b => g[a] # g[b] } }

\* C3: for a photo with at least one variant of a recognized size code,
\* vk_get_info_photo records url, code, height and width of the variant
\* whose code is first in the order w z y x r q p o m s among the codes
\* present, and the same for every permutation of the variant list
C3_HighestPriorityVariant ==
    (data # <<>> /\ CodesPresent(data[1].sizes) # {}) =>
        LET sizes == data[1].sizes
            code  == size_types[Least(CodesPresent(sizes))]
        IN  /\ pc = "info"
            /\ photos[1].sizes = code
            /\ \E i \in 1..Len(sizes) :
                 /\ sizes[i].type = code
                 /\ photos[1].url = sizes[i].url
                 /\ photos[1].height = sizes[i].height
                 /\ photos[1].width = sizes[i].width
            /\ \A other \in Permutations_(sizes) :
                 max_size(other)[1] = max_size(sizes)[1]

-----------------------------------------------------------------------------
(* Properties of the run vk_backup_photo, checked under Spec *)

\* the positions of the requests of kind op in log
Ops(op) == { i \in 1..Len(log) : log[i].op = op }

\* string s begins with string prefix
HasPrefix(s, prefix) ==
    Len(s) >= Len(prefix) /\ SubSeq(s, 1, Len(prefix)) = prefix

\* the greatest element of a non-empty set of numbers
Greatest(S) == CHOOSE k \in S : \A m \in S : m <= k

\* how many album folders were created up to position i of log (the folder
\* at position 1 is the run root)
AlbumFoldersUpTo(i) == Cardinality({ j \in 2..i : log[j].op = "ya_create_folder" })

\* the folder created last before position i of log
FolderBefore(i) ==
    log[Greatest({ j \in 1..(i - 1) : log[j].op = "ya_create_folder" })].path

\* album copying was asked for: by the flag, or by a nonzero album count
Requested == args.other_albums \/ args.number_albums # 0

\* the number of UploadResult entries of a manifest
RECURSIVE TotalEntries(_)
TotalEntries(dict) ==
    IF DOMAIN dict = {} THEN 0
    ELSE LET k == CHOOSE x \in DOMAIN dict : TRUE
         IN  Len(dict[k]) + TotalEntries([x \in DOMAIN dict \ {k} |-> dict[x]])

\* while vk_uploader runs, what it has done matches the photos before idx
C4_UploaderState ==
    pc = "upload" =>
        LET done == idx - 1
            base == Len(log) - done
        IN  /\ done <= Len(photos)
            /\ Len(photos) = Len(data)
            /\ Len(up_result) = done
            /\ base >= 1
            /\ log[base].op = "photos.get"
            /\ \A i \in 1..done :
                 /\ log[base + i] =
                      ya_upload(up_path \o "/" \o up_result[i].file_name, photos[i].url)
                 /\ up_result[i].size = photos[i].sizes

\* a manifest entry is assigned only by the return of vk_uploader, after the
\* last photo of the collection, and it is the list vk_uploader built
C4_AssignStep ==
    result' # result =>
        /\ pc = "upload"
        /\ idx = Len(photos) + 1
        /\ Len(up_result) = Len(photos)
        /\ \E k \in DOMAIN result' :
             /\ result'[k] = up_result
             /\ \A x \in DOMAIN result : x # k => result'[x] = result[x]

\* C4: for every collection vk_uploader issues one upload per photo and
\* returns one UploadResult per photo, in the order of the photos; the i-th
\* result carries the i-th photo's size code and the file name of the i-th
\* upload path '<collection folder>/<file name>'; the manifest entry of the
\* collection is assigned only after all of its photos were submitted
C4_OneResultPerPhoto == [](C4_UploaderState) /\ [][C4_AssignStep]_vars

\* C4's case: an album of two photos has been uploaded in full and its
\* entry is about to be assigned
C4_Witness ==
    /\ pc = "upload"
    /\ aidx >= 1
    /\ Len(photos) = 2
    /\ idx = 3
    /\ "profile" \in DOMAIN result

C6_NoAlbumsOnlyProfile ==
    (Ops("photos.getAlbums") # {} /\ albums = <<>>) =>
        /\ Requested
        /\ pc \in {"write", "done"}
        /\ Ops("ya_create_folder") = {1}
        /\ \A i \in Ops("photos.get") : log[i].album_id = "profile"
        /\ pc = "done" =>
             /\ file # {}
             /\ \A f \in file : DOMAIN f.content = {"profile"}

\* C6's case: a completed run whose album search found nothing
C6_Witness ==
    /\ pc = "done"
    /\ Ops("photos.getAlbums") # {}
    /\ albums = <<>>
    /\ Ops("ya_upload") # {}

\* C7 as stated: with number_photos = 0 the count sent to photos.get is the
\* empty 'no limit' value that vk_album_search sends for number_albums = 0
C7_ZeroPhotosMeansNoLimit ==
    args.number_photos = 0 =>
        \A i \in Ops("photos.get") : log[i].count = AlbumCount(0)

\* C7 amended: vk_get_info_photo sends number_photos as it is, so the count
\* of photos.get is the literal 0 when number_photos is 0; only
\* vk_album_search turns a 0 into the empty count
C7_ZeroPhotosSentAsZero ==
    /\ \A i \in Ops("photos.get") :
         /\ args.number_photos = 0 => log[i].count = "0"
         /\ args.number_photos = 5 => log[i].count = "5"
    /\ \A i \in Ops("photos.getAlbums") :
         /\ args.number_albums = 0 => log[i].count = ""
         /\ args.number_albums # 0 => log[i].count # ""

\* C7's case: number_photos and number_albums are 0 and both an album
\* search and an album photo query were sent
C7_Witness ==
    /\ args.number_photos = 0
    /\ args.number_albums = 0
    /\ Ops("photos.getAlbums") # {}
    /\ Cardinality(Ops("photos.get")) >= 2

\* C8: the album search is issued exactly when other_albums is True or
\* number_albums is nonzero; with other_albums False and number_albums 0
\* there is no album search, album folder or album upload and the manifest
\* holds the key "profile" only
C8_AlbumSearchIffRequested ==
    /\ Ops("photos.getAlbums") # {} => Requested
    /\ pc = "album_search" <=> (Requested /\ "profile" \in DOMAIN result
                                 /\ Ops("photos.getAlbums") = {})
    /\ pc \in {"write", "done"} => (Ops("photos.getAlbums") # {} <=> Requested)
    /\ ~Requested =>
         /\ Ops("photos.getAlbums") = {}
         /\ Ops("ya_create_folder") \subseteq {1}
         /\ Ops("photos.get") \subseteq {2}
         /\ \A i \in Ops("ya_upload") : HasPrefix(log[i].path, path \o "/")
         /\ Cardinality(Ops("ya_upload")) <= Len(photos)
         /\ \A f \in file : DOMAIN f.content = {"profile"}

\* C8's case: other_albums is False, number_albums is not 0, and the album
\* search was issued
C8_Witness ==
    /\ ~args.other_albums
    /\ args.number_albums # 0
    /\ Ops("photos.getAlbums") # {}
    /\ pc = "done"

\* C9: the root folder is created before anything else; the profile query
\* and all profile uploads precede the album search; albums are taken in
\* the order returned, each with its folder creation, then its photo query,
\* then all its uploads, before the next album's folder; the manifest is
\* written last, after the uploads of the last collection
C9_RequestOrder ==
    \A i \in 1..Len(log) :
        LET e == log[i]
        IN  CASE e.op = "ya_create_folder" ->
                   IF i = 1 THEN e.path = path
                   ELSE /\ \E g \in 1..(i - 1) : log[g].op = "photos.getAlbums"
                        /\ log[i - 1].op \in {"photos.getAlbums", "ya_upload", "photos.get"}
                        /\ AlbumFoldersUpTo(i) <= Len(albums)
                        /\ e.path = path \o "/" \o albums[AlbumFoldersUpTo(i)].title
              [] e.op = "photos.get" ->
                   /\ i >= 2
                   /\ log[i - 1].op = "ya_create_folder"
                   /\ i = 2 => e.album_id = "profile"
                   /\ i > 2 => e.album_id = albums[AlbumFoldersUpTo(i)].album_id
              [] e.op = "ya_upload" ->
                   /\ i >= 3
                   /\ log[i - 1].op \in {"ya_upload", "photos.get"}
                   /\ HasPrefix(e.path, FolderBefore(i) \o "/")
              [] e.op = "photos.getAlbums" ->
                   /\ i >= 3
                   /\ \A j \in 3..(i - 1) : log[j].op = "ya_upload"
              [] e.op = "json.dump" ->
                   /\ i = Len(log)
                   /\ i >= 3
                   /\ pc = "done"
                   /\ Ops("photos.getAlbums") # {} => AlbumFoldersUpTo(i) = Len(albums)

\* C9's case: a completed run over the profile and two albums, each with
\* uploads
C9_Witness ==
    /\ pc = "done"
    /\ Len(albums) = 2
    /\ AlbumFoldersUpTo(Len(log)) = 2
    /\ Cardinality(Ops("ya_upload")) >= 5

\* C10: after a completed run the manifest has one entry for the profile
\* and one per processed album, and the number of UploadResult entries over
\* all its keys is the number of upload requests issued
C10_ManifestRecordsEveryUpload ==
    pc = "done" =>
        /\ file # {}
        /\ \A f \in file :
             /\ Cardinality(DOMAIN f.content) = 1 + Len(albums)
             /\ TotalEntries(f.content) = Cardinality(Ops("ya_upload"))

====
